---------------------------- MODULE Spec2Model ----------------------------
(***************************************************************************)
(* A model of the cache layer of greenfedora-utils, CacheGroup             *)
(* (src/cacheGroup.js), Cache (src/cache.js) and FileCache                 *)
(* (src/fileCache.js), and of its EventManager (src/eventManager.js),      *)
(* each operation translated from its JavaScript.                          *)
(*                                                                         *)
(* The specifications of the module, each leaving the variables of the     *)
(* other classes untouched:                                                *)
(*   SpecGroup, SpecGroupDisk     one CacheGroup and the file it saves     *)
(*                                to, the second with the file removed     *)
(*                                or damaged from outside;                 *)
(*   SpecCache, SpecCacheItems,   one Cache, its groups and the directory  *)
(*   SpecCacheFail, SpecCacheDir  it saves to: all operations, the item    *)
(*                                operations alone, failing save and load  *)
(*                                tasks, files put there from outside;     *)
(*   SpecFileCache, SpecFileType, one FileCache, its table and the files   *)
(*   SpecFilePaths,               it checks: the check types, an unknown   *)
(*   SpecFileMissing,             type, the forms of a path, deleted       *)
(*   SpecFileSave                 files, the cache file on disk;           *)
(*   SpecEvents                   one EventManager and the handlers of     *)
(*                                one event.                               *)
(*                                                                         *)
(* Strings the code takes apart (group names, file names, paths) are       *)
(* sequences of one-character strings; strings it only compares (keys of   *)
(* a CacheGroup, JSON tokens) are TLA+ strings.                            *)
(***************************************************************************)
EXTENDS Integers, Sequences, FiniteSets, TLC

VARIABLES
    g_data,      \* CacheGroup.#data: the Map, as its entries in insertion order
    g_file,      \* the file at filePath: [exists, text]
    g_dir,       \* whether path.dirname(filePath) exists
    g_saved,     \* history: the entries written by the latest save
    g_prev,      \* history: #data before the latest operation
    g_last,      \* history: the latest operation, its arguments and outcome
    groups,      \* Cache.#groups: own properties, group name -> entries
    c_dir,       \* the directory dirPath: [exists, files: file name -> text]
    c_saved,     \* history: the groups written by the latest save of all groups
    c_last,      \* history: the latest Cache operation and its outcome
    fc_type,     \* FileCache.checkType
    fc_data,     \* FileCache.data: the Map, as its entries in insertion order
    fc_files,    \* the file system below sitePath: file path -> stat and content
    fc_last,     \* history: the latest FileCache operation and its outcome
    fc_disk,     \* the directories above FileCache.cachePath and the cache file
    em_events,   \* EventManager.#events[event]: the array of {func, pri}
    em_status,   \* each handler function's latest call: idle, started, done, failed
    em_emit,     \* the emit call: its promise, the priority keys left, the level awaited
    em_last      \* history: the latest EventManager operation and its outcome

gvars == <<g_data, g_file, g_dir, g_saved, g_prev, g_last>>
cvars == <<groups, c_dir, c_saved, c_last>>
fvars == <<fc_type, fc_data, fc_files, fc_last, fc_disk>>
evars == <<em_events, em_status, em_emit, em_last>>
vars  == <<gvars, cvars, fvars, evars>>

(***************************************************************************)
(* Bounds.                                                                 *)
(***************************************************************************)
MaxNum == 1          \* numbers stored as cache values are 1..MaxNum
MaxMtime == 2        \* modification times of files are 1..MaxMtime
MaxDepth == 2        \* directories between the file system root and the cache file

(***************************************************************************)
(* JavaScript values a cache entry holds (the JSON-serialisable ones the   *)
(* data model allows): null, a number, a string.                           *)
(***************************************************************************)
JNull   == [t |-> "null", n |-> 0, s |-> ""]
JNum(n) == [t |-> "num", n |-> n, s |-> ""]
JStr(s) == [t |-> "str", n |-> 0, s |-> s]

Keys   == {"k1", "k2"}
Values == {JNull, JStr("1")} \cup {JNum(n) : n \in 1..MaxNum}

NoKey == "-"

(***************************************************************************)
(* The JavaScript Map: entries [k, v] in insertion order, keys unique.     *)
(***************************************************************************)
MapHas(d, k) == \E i \in 1..Len(d) : d[i].k = k

MapGet(d, k) == d[CHOOSE i \in 1..Len(d) : d[i].k = k].v

\* Map.prototype.set: an existing key keeps its position, a new one is appended
MapSet(d, k, v) ==
    IF MapHas(d, k)
    THEN [i \in 1..Len(d) |-> IF d[i].k = k THEN [k |-> k, v |-> v] ELSE d[i]]
    ELSE Append(d, [k |-> k, v |-> v])

MapDelete(d, k) == SelectSeq(d, LAMBDA e : e.k # k)

\* new Map(iterable of [key, value]): successive set calls
RECURSIVE MapFromEntries(_, _)
MapFromEntries(d, es) ==
    IF es = <<>> THEN d
    ELSE MapFromEntries(MapSet(d, Head(es).k, Head(es).v), Tail(es))

MapKeys(d)   == [i \in 1..Len(d) |-> d[i].k]
MapValues(d) == [i \in 1..Len(d) |-> d[i].v]

(***************************************************************************)
(* JSON text, as its sequence of tokens.                                   *)
(***************************************************************************)
Quote(s) == "\"" \o s \o "\""

JsonLit(v) ==
    CASE v.t = "null" -> "null"
      [] v.t = "num"  -> ToString(v.n)
      [] v.t = "str"  -> Quote(v.s)

RECURSIVE JoinPairs(_)
JoinPairs(es) ==
    IF es = <<>> THEN <<>>
    ELSE <<"[", Quote(Head(es).k), ",", JsonLit(Head(es).v), "]">>
         \o (IF Len(es) > 1 THEN <<",">> ELSE <<>>)
         \o JoinPairs(Tail(es))

\* JSON.stringify(Array.from(map.entries()))
JSONstringify(es) == <<"[">> \o JoinPairs(es) \o <<"]">>

IsKeyTok(tok) == \E k \in Keys : Quote(k) = tok
IsLitTok(tok) == \E v \in Values : JsonLit(v) = tok
ParseKey(tok) == CHOOSE k \in Keys : Quote(k) = tok
ParseLit(tok) == CHOOSE v \in Values : JsonLit(v) = tok

\* the tokens between the outer brackets are pairs [ key , value ] separated by commas
PairsWellFormed(inner) ==
    \/ inner = <<>>
    \/ /\ (Len(inner) + 1) % 6 = 0
       /\ \A i \in 1..Len(inner) :
            LET j == i % 6 IN
            CASE j = 1 -> inner[i] = "["
              [] j = 2 -> IsKeyTok(inner[i])
              [] j = 3 -> inner[i] = ","
              [] j = 4 -> IsLitTok(inner[i])
              [] j = 5 -> inner[i] = "]"
              [] j = 0 -> inner[i] = ","

\* JSON.parse(text): the array of pairs, or a SyntaxError
JSONparse(text) ==
    IF /\ Len(text) >= 2
       /\ text[1] = "["
       /\ text[Len(text)] = "]"
       /\ PairsWellFormed(SubSeq(text, 2, Len(text) - 1))
    THEN LET inner == SubSeq(text, 2, Len(text) - 1)
             n     == (Len(inner) + 1) \div 6
         IN [ok |-> TRUE,
             entries |-> [i \in 1..n |-> [k |-> ParseKey(inner[6 * (i - 1) + 2]),
                                          v |-> ParseLit(inner[6 * (i - 1) + 4])]]]
    ELSE [ok |-> FALSE, entries |-> <<>>]

NoFile == [exists |-> FALSE, text |-> <<>>]
FileOf(text) == [exists |-> TRUE, text |-> text]

(***************************************************************************)
(* CacheGroup.                                                             *)
(***************************************************************************)
CG_new == <<>>

CG_has(d, k) == MapHas(d, k)

CG_get(d, k) == IF CG_has(d, k) THEN MapGet(d, k) ELSE JNull

\* faulty variant of CG_set: an existing key is not overwritten
CG_set_KeepOld(d, k, v) == IF MapHas(d, k) THEN d ELSE MapSet(d, k, v)

CG_set(d, k, v) == MapSet(d, k, v)

\* faulty variant of CG_add: the duplicate check is missing
CG_add_NoCheck(d, k, v) == [data |-> CG_set(d, k, v), res |-> "ok"]

CG_add(d, k, v) ==
    IF CG_has(d, k)
    THEN [data |-> d, res |-> "GfCacheGroupError"]
    ELSE [data |-> CG_set(d, k, v), res |-> "ok"]

CG_del(d, k) == IF CG_has(d, k) THEN MapDelete(d, k) ELSE d

CG_getInternals(d, format) ==
    CASE format = "values"  -> MapValues(d)
      [] format = "entries" -> d
      [] format = "keys"    -> MapKeys(d)
      [] OTHER              -> d

\* faulty variant of CG_load: the group is emptied before the text is parsed
CG_load_ClearsFirst(d, file) ==
    IF ~file.exists
    THEN [data |-> CG_new, res |-> "ok"]
    ELSE LET parsed == JSONparse(file.text) IN
         IF parsed.ok
         THEN [data |-> MapFromEntries(<<>>, parsed.entries), res |-> "ok"]
         ELSE [data |-> CG_new, res |-> "SyntaxError"]

\* load(filePath): a missing file empties the group, a parse failure throws
\* before #data is assigned
CG_load(d, file) ==
    IF ~file.exists
    THEN [data |-> CG_new, res |-> "ok"]
    ELSE LET parsed == JSONparse(file.text) IN
         IF parsed.ok
         THEN [data |-> MapFromEntries(<<>>, parsed.entries), res |-> "ok"]
         ELSE [data |-> d, res |-> "SyntaxError"]

RECURSIVE Reverse(_)
Reverse(q) == IF q = <<>> THEN <<>> ELSE Append(Reverse(Tail(q)), Head(q))

\* faulty variant of CG_save: the entries are written last to first
CG_save_Reversed(d) == FileOf(JSONstringify(Reverse(d)))

\* save(filePath): the text written to filePath (the directory is made first)
CG_save(d) == FileOf(JSONstringify(d))

(***************************************************************************)
(* SpecGroup: one CacheGroup and the file it is saved to and loaded from.  *)
(***************************************************************************)
\* before: the operation that preceded this one, and its key
GLast(op, k, v, res, before) ==
    [op |-> op, k |-> k, v |-> v, res |-> res, before |-> before]

Before(last) == [op |-> last.op, k |-> last.k]

\* new CacheGroup(name): a fresh instance; the disk is as it was
GNew ==
    /\ UNCHANGED <<cvars, fvars, evars>>
    /\ g_data' = CG_new
    /\ g_prev' = g_data
    /\ g_last' = GLast("new", NoKey, JNull, "ok", Before(g_last))
    /\ UNCHANGED <<g_file, g_dir, g_saved>>

GSet(k, v) ==
    /\ UNCHANGED <<cvars, fvars, evars>>
    /\ g_data' = CG_set(g_data, k, v)
    /\ g_prev' = g_data
    /\ g_last' = GLast("set", k, v, "ok", Before(g_last))
    /\ UNCHANGED <<g_file, g_dir, g_saved>>

GAdd(k, v) ==
    /\ UNCHANGED <<cvars, fvars, evars>>
    /\ g_data' = CG_add(g_data, k, v).data
    /\ g_prev' = g_data
    /\ g_last' = GLast("add", k, v, CG_add(g_data, k, v).res, Before(g_last))
    /\ UNCHANGED <<g_file, g_dir, g_saved>>

GDel(k) ==
    /\ UNCHANGED <<cvars, fvars, evars>>
    /\ g_data' = CG_del(g_data, k)
    /\ g_prev' = g_data
    /\ g_last' = GLast("del", k, JNull, "ok", Before(g_last))
    /\ UNCHANGED <<g_file, g_dir, g_saved>>

GLoad ==
    /\ UNCHANGED <<cvars, fvars, evars>>
    /\ g_data' = CG_load(g_data, g_file).data
    /\ g_prev' = g_data
    /\ g_last' = GLast("load", NoKey, JNull, CG_load(g_data, g_file).res, Before(g_last))
    /\ UNCHANGED <<g_file, g_dir, g_saved>>

GSave ==
    /\ UNCHANGED <<cvars, fvars, evars>>
    /\ g_dir' = TRUE
    /\ g_file' = CG_save(g_data)
    /\ g_saved' = g_data
    /\ g_prev' = g_data
    /\ g_last' = GLast("save", NoKey, JNull, "ok", Before(g_last))
    /\ UNCHANGED g_data

\* the outside world removes the file
GUnlink ==
    /\ UNCHANGED <<cvars, fvars, evars>>
    /\ g_file.exists
    /\ g_file' = NoFile
    /\ g_prev' = g_data
    /\ g_last' = GLast("unlink", NoKey, JNull, "ok", Before(g_last))
    /\ UNCHANGED <<g_data, g_dir, g_saved>>

\* the outside world leaves the file with a text that is not valid JSON: the
\* text cut short by one token, or the empty text
GCorrupt(cut) ==
    LET text == IF cut THEN SubSeq(g_file.text, 1, Len(g_file.text) - 1) ELSE <<>> IN
    /\ UNCHANGED <<cvars, fvars, evars>>
    /\ g_file.exists
    /\ ~JSONparse(text).ok
    /\ g_file' = FileOf(text)
    /\ g_prev' = g_data
    /\ g_last' = GLast("corrupt", NoKey, JNull, "ok", Before(g_last))
    /\ UNCHANGED <<g_data, g_dir, g_saved>>

NextG ==
    \/ GNew
    \/ \E k \in Keys, v \in Values : GSet(k, v)
    \/ \E k \in Keys, v \in Values : GAdd(k, v)
    \/ \E k \in Keys : GDel(k)
    \/ GLoad
    \/ GSave



\* the values of the entries when the file can also be removed or damaged
DiskValues == {JStr("1")}

\* the operations of SpecGroup, with a file that can also be removed or damaged
NextGD ==
    \/ GNew
    \/ \E k \in Keys, v \in DiskValues : GSet(k, v)
    \/ \E k \in Keys, v \in DiskValues : GAdd(k, v)
    \/ \E k \in Keys : GDel(k)
    \/ GLoad
    \/ GSave
    \/ GUnlink
    \/ \E cut \in BOOLEAN : GCorrupt(cut)

(***************************************************************************)
(* Properties of CacheGroup, checked under SpecGroup.                      *)
(***************************************************************************)

\* C1: add(k, v) on a group without k succeeds and get(k) then returns v; add
\* on a group that has k fails with the duplicate-key error and leaves the
\* group as it was, get(k) still returning the original value.
C1_AddThenGet ==
    g_last.op = "add" =>
        IF ~CG_has(g_prev, g_last.k)
        THEN /\ g_last.res = "ok"
             /\ CG_get(g_data, g_last.k) = g_last.v
        ELSE /\ g_last.res = "GfCacheGroupError"
             /\ g_data = g_prev
             /\ CG_get(g_data, g_last.k) = CG_get(g_prev, g_last.k)

\* a second add of the same key, with another value, has just failed
C1_Witness ==
    /\ g_last.op = "add"
    /\ g_last.before = [op |-> "add", k |-> g_last.k]
    /\ g_last.res = "GfCacheGroupError"
    /\ CG_get(g_data, g_last.k) # g_last.v
    /\ Len(g_data) = 1

\* C4: after save(path), load(path) on a group (a fresh one included) gives
\* the saved entries in the saved order, as keys, values and entries.
C4_SaveLoadRoundTrip ==
    (g_last.op = "load" /\ g_file.exists) =>
        /\ g_last.res = "ok"
        /\ \A format \in {"keys", "values", "entries"} :
             CG_getInternals(g_data, format) = CG_getInternals(g_saved, format)

\* a fresh group has just loaded two entries whose insertion order is not
\* the order of their keys
C4_Witness ==
    /\ g_last.op = "load"
    /\ g_last.before.op = "new"
    /\ g_prev = <<>>
    /\ CG_getInternals(g_data, "keys") = <<"k2", "k1">>
    /\ CG_getInternals(g_data, "values") = <<JStr("1"), JNum(1)>>

\* C10: set(k, v) never fails, get(k) then returns v whether or not k was
\* present (so the later of two sets wins), and no other key changes.
C10_SetOverwrites ==
    g_last.op = "set" =>
        /\ g_last.res = "ok"
        /\ CG_get(g_data, g_last.k) = g_last.v
        /\ \A k2 \in Keys \ {g_last.k} :
             /\ CG_has(g_data, k2) = CG_has(g_prev, k2)
             /\ CG_get(g_data, k2) = CG_get(g_prev, k2)

\* set(k, v1); set(k, v2) with v1 # v2, another key being present
C10_Witness ==
    /\ g_last.op = "set"
    /\ g_last.before = [op |-> "set", k |-> g_last.k]
    /\ CG_has(g_prev, g_last.k)
    /\ CG_get(g_prev, g_last.k) # g_last.v
    /\ CG_get(g_data, g_last.k) = g_last.v
    /\ Len(g_data) = 2

(***************************************************************************)
(* Properties of CacheGroup.load, checked under SpecGroupDisk.             *)
(***************************************************************************)
\* C22: load of a file that does not exist succeeds and leaves the group with
\* no entries; load of a file whose text is not valid JSON fails with the
\* parse error and leaves the entries as they were before the call.
C22_LoadMissingOrInvalid ==
    g_last.op = "load" =>
        /\ ~g_file.exists => (g_last.res = "ok" /\ g_data = <<>>)
        /\ (g_file.exists /\ ~JSONparse(g_file.text).ok) =>
              (g_last.res = "SyntaxError" /\ g_data = g_prev)

\* load has just failed on a damaged file in a group that holds two entries
C22_Witness ==
    /\ g_last.op = "load"
    /\ g_file.exists
    /\ ~JSONparse(g_file.text).ok
    /\ g_last.res = "SyntaxError"
    /\ Len(g_data) = 2

(***************************************************************************)
(* Cache: group names and file names.                                      *)
(***************************************************************************)
Sentinel == <<"_">>
Pages    == <<"p", "g">>
Empty    == <<>>

\* `name in this.#groups` also finds what the object literal inherits from
\* Object.prototype (toString, constructor, valueOf, ...); one stands for all
ToStringName == <<"t", "o", "S", "t", "r", "i", "n", "g">>
ObjectPrototypeKeys == {ToStringName}

UserNames  == {Pages, Empty}
GroupNames == {Sentinel} \cup UserNames \cup ObjectPrototypeKeys

DotJson == <<".", "j", "s", "o", "n">>

\* path.join(dirPath, groupName + '.json'), as the name inside dirPath
FileName(name) == name \o DotJson

LastDot(f) ==
    IF \E i \in 1..Len(f) : f[i] = "."
    THEN CHOOSE i \in 1..Len(f) : f[i] = "." /\ \A j \in (i + 1)..Len(f) : f[j] # "."
    ELSE 0

\* path.extname: from the last dot on; none when the only dot leads the name
Extname(f) ==
    IF LastDot(f) <= 1 \/ f = <<".", ".">> THEN <<>>
    ELSE SubSeq(f, LastDot(f), Len(f))

\* path.basename(f, ext)
Basename(f, ext) ==
    IF /\ ext # <<>>
       /\ Len(ext) < Len(f)
       /\ SubSeq(f, Len(f) - Len(ext) + 1, Len(f)) = ext
    THEN SubSeq(f, 1, Len(f) - Len(ext))
    ELSE f

CKeys   == {"k1"}
CValues == {JStr("1")}

\* the groups argument of save and load: null, or an array of names
NullList == [null |-> TRUE, names |-> <<>>]
ListOf(names) == [null |-> FALSE, names |-> names]
GroupLists ==
    {NullList, ListOf(<<>>)}
    \cup {ListOf(<<n>>) : n \in GroupNames}
    \cup {ListOf(<<Pages, Empty>>), ListOf(<<ToStringName, Pages>>)}

\* locked: the files of the directory that cannot be written (read-only)
NoDir == [exists |-> FALSE, files |-> <<>>, locked |-> {}]

(***************************************************************************)
(* Cache operations: each gives the groups afterwards, the outcome res     *)
(* ("ok" or the error thrown) and what is returned.                        *)
(***************************************************************************)
COut(gs, res, ret) == [groups |-> gs, res |-> res, ret |-> ret]

\* reset(): this.#groups = {_: new CacheGroup('_')}
C_reset == [n \in {Sentinel} |-> CG_new]

\* hasGroup(name): name in this.#groups
C_hasGroup(gs, name) == name \in DOMAIN gs \/ name \in ObjectPrototypeKeys

\* this.#groups[name] is a CacheGroup (an own property), not an inherited member
IsGroup(gs, name) == name \in DOMAIN gs

\* faulty variant of C_addGroup: the reserved name is not refused
C_addGroup_NoReserved(gs, name) ==
    IF C_hasGroup(gs, name) THEN COut(gs, "GfCacheError: exists", "throw")
    ELSE COut([n \in DOMAIN gs \cup {name} |-> IF n = name THEN CG_new ELSE gs[n]],
              "ok", "this")

C_addGroup(gs, name) ==
    IF name = Sentinel THEN COut(gs, "GfCacheError: reserved", "throw")
    ELSE IF C_hasGroup(gs, name) THEN COut(gs, "GfCacheError: exists", "throw")
    ELSE COut([n \in DOMAIN gs \cup {name} |-> IF n = name THEN CG_new ELSE gs[n]],
              "ok", "this")

\* faulty variant of C_delGroup: the reserved name is not refused
C_delGroup_NoReserved(gs, name) ==
    IF C_hasGroup(gs, name)
    THEN COut([n \in DOMAIN gs \ {name} |-> gs[n]], "ok", "undefined")
    ELSE COut(gs, "ok", "undefined")

C_delGroup(gs, name) ==
    IF name = Sentinel THEN COut(gs, "GfCacheError: reserved", "throw")
    ELSE IF C_hasGroup(gs, name)
         THEN COut([n \in DOMAIN gs \ {name} |-> gs[n]], "ok", "undefined")
         ELSE COut(gs, "ok", "undefined")

\* has / get / add / set / del (name, group): the group is resolved first; an
\* inherited member is found by hasGroup and getGroup but has no such method
Resolve(gs, g) ==
    IF ~C_hasGroup(gs, g) THEN "GfCacheError: no group"
    ELSE IF ~IsGroup(gs, g) THEN "TypeError"
    ELSE "ok"

\* getGroup(name): what hasGroup finds is returned, a CacheGroup or an
\* inherited member
C_getGroup(gs, name) ==
    IF ~C_hasGroup(gs, name) THEN COut(gs, "GfCacheError: no group", "throw")
    ELSE COut(gs, "ok", IF IsGroup(gs, name) THEN "CacheGroup" ELSE "inherited member")

C_has(gs, k, g) ==
    IF Resolve(gs, g) # "ok" THEN COut(gs, Resolve(gs, g), "throw")
    ELSE COut(gs, "ok", IF CG_has(gs[g], k) THEN "true" ELSE "false")

\* the value get returns (null for an absent key)
C_getValue(gs, k, g) == IF Resolve(gs, g) = "ok" THEN CG_get(gs[g], k) ELSE JNull

C_get(gs, k, g) ==
    IF Resolve(gs, g) # "ok" THEN COut(gs, Resolve(gs, g), "throw")
    ELSE COut(gs, "ok", "value")

C_add(gs, k, v, g) ==
    IF Resolve(gs, g) # "ok" THEN COut(gs, Resolve(gs, g), "throw")
    ELSE IF CG_add(gs[g], k, v).res # "ok" THEN COut(gs, CG_add(gs[g], k, v).res, "throw")
    ELSE COut([gs EXCEPT ![g] = CG_add(gs[g], k, v).data], "ok", "this")

\* faulty variant of C_set: the key is written to every group
C_set_AllGroups(gs, k, v, g) ==
    IF Resolve(gs, g) # "ok" THEN COut(gs, Resolve(gs, g), "throw")
    ELSE COut([n \in DOMAIN gs |-> CG_set(gs[n], k, v)], "ok", "this")

C_set(gs, k, v, g) ==
    IF Resolve(gs, g) # "ok" THEN COut(gs, Resolve(gs, g), "throw")
    ELSE COut([gs EXCEPT ![g] = CG_set(gs[g], k, v)], "ok", "this")

C_del(gs, k, g) ==
    IF Resolve(gs, g) # "ok" THEN COut(gs, Resolve(gs, g), "throw")
    ELSE COut([gs EXCEPT ![g] = CG_del(gs[g], k)], "ok", "this")


RECURSIVE SetToSeq(_)
SetToSeq(S) ==
    IF S = {} THEN <<>>
    ELSE LET x == CHOOSE y \in S : TRUE IN <<x>> \o SetToSeq(S \ {x})

Range(q) == {q[i] : i \in 1..Len(q)}

\* Object.keys(this.#groups)
OwnKeys(gs) == SetToSeq(DOMAIN gs)

\* the error the task of save for one name ends with, "ok" when it has none:
\* an inherited member has no save method, a read-only file cannot be written
SaveTaskRes(gs, dir, n) ==
    IF ~C_hasGroup(gs, n) THEN "ok"
    ELSE IF ~IsGroup(gs, n) THEN "TypeError"
    ELSE IF FileName(n) \in dir.locked THEN "EACCES"
    ELSE "ok"

\* the outcome of the first task that failed, in the order of the list
FirstFailure(names, res(_)) ==
    IF \A i \in 1..Len(names) : res(names[i]) = "ok" THEN "ok"
    ELSE res(names[CHOOSE i \in 1..Len(names) :
                     /\ res(names[i]) # "ok"
                     /\ \A j \in 1..(i - 1) : res(names[j]) = "ok"])

\* save(dirPath, groups): every callback of groups.map runs; one that throws
\* rejects its own promise only, and Promise.all then rejects
C_save(gs, dir, list) ==
    LET names   == IF list.null THEN OwnKeys(gs) ELSE list.names
        saved   == {n \in Range(names) : IsGroup(gs, n)}
        written == {n \in saved : FileName(n) \notin dir.locked}
        Res(n)  == SaveTaskRes(gs, dir, n)
        files   == [f \in DOMAIN dir.files \cup {FileName(n) : n \in written} |->
                     IF \E n \in written : FileName(n) = f
                     THEN CG_save(gs[CHOOSE n \in written : FileName(n) = f]).text
                     ELSE dir.files[f]]
    IN [dir |-> IF saved = {} THEN dir
                ELSE [exists |-> TRUE, files |-> files, locked |-> dir.locked],
        res |-> FirstFailure(names, Res),
        ret |-> IF FirstFailure(names, Res) = "ok" THEN "resolved" ELSE "rejected"]

\* load, directory missing: for (let g of groups) this.addGroup(g)
RECURSIVE AddAll(_, _)
AddAll(gs, names) ==
    IF names = <<>> THEN COut(gs, "ok", "resolved")
    ELSE LET r == C_addGroup(gs, Head(names)) IN
         IF r.res # "ok" THEN COut(gs, r.res, "rejected")
         ELSE AddAll(r.groups, Tail(names))

\* what fs.readdirSync yields that has the extension .json, as group names
Extracted(dir) ==
    {Basename(f, Extname(f)) : f \in {x \in DOMAIN dir.files : Extname(x) = DotJson}}

FileAt(dir, f) == IF f \in DOMAIN dir.files THEN FileOf(dir.files[f]) ELSE NoFile

\* faulty variant of LoadTask: the group is added but its file is not loaded
LoadTask_NoLoad(gs, dir, name) ==
    COut(IF C_hasGroup(gs, name) THEN gs ELSE C_addGroup(gs, name).groups,
         "ok", "resolved")

\* one callback of load's groups.map: add the group when hasGroup is false,
\* then this.#groups[groupName].load(...)
LoadTask(gs, dir, name) ==
    LET g1 == IF C_hasGroup(gs, name) THEN gs ELSE C_addGroup(gs, name).groups IN
    IF ~IsGroup(g1, name) THEN COut(g1, "TypeError", "rejected")
    ELSE LET r == CG_load(g1[name], FileAt(dir, FileName(name))) IN
         COut([g1 EXCEPT ![name] = r.data], r.res,
              IF r.res = "ok" THEN "resolved" ELSE "rejected")

\* faulty variant of LoadTasks: the tasks run one after the other and the
\* first failure ends the call
RECURSIVE LoadTasks_StopAtFailure(_, _, _, _)
LoadTasks_StopAtFailure(gs, dir, names, res) ==
    IF names = <<>> \/ res # "ok"
    THEN COut(gs, res, IF res = "ok" THEN "resolved" ELSE "rejected")
    ELSE LET r == LoadTask(gs, dir, Head(names)) IN
         LoadTasks_StopAtFailure(r.groups, dir, Tail(names), r.res)

\* all callbacks run, in order; Promise.all rejects with the first failure
RECURSIVE LoadTasks(_, _, _, _)
LoadTasks(gs, dir, names, res) ==
    IF names = <<>>
    THEN COut(gs, res, IF res = "ok" THEN "resolved" ELSE "rejected")
    ELSE LET r == LoadTask(gs, dir, Head(names)) IN
         LoadTasks(r.groups, dir, Tail(names), IF res = "ok" THEN r.res ELSE res)

C_load(gs, dir, list) ==
    IF ~dir.exists
    THEN IF list.null THEN COut(gs, "ok", "resolved") ELSE AddAll(gs, list.names)
    ELSE IF list.null /\ Extracted(dir) = {} THEN COut(gs, "ok", "resolved")
    ELSE LoadTasks(gs, dir,
                   IF list.null THEN SetToSeq(Extracted(dir)) ELSE list.names, "ok")

(***************************************************************************)
(* SpecCache: one Cache and the directory it is saved to and loaded from.  *)
(***************************************************************************)
CLast(op, g, k, v, list, out, fresh) ==
    [op |-> op, g |-> g, k |-> k, v |-> v, list |-> list,
     res |-> out.res, ret |-> out.ret, fresh |-> fresh]

\* reset(), which is also all the constructor does: a fresh Cache
CReset ==
    /\ UNCHANGED <<gvars, fvars, evars>>
    /\ groups' = C_reset
    /\ c_last' = CLast("reset", Sentinel, NoKey, JNull, NullList,
                       COut(C_reset, "ok", "undefined"), TRUE)
    /\ UNCHANGED <<c_dir, c_saved>>

CAddGroup(n) ==
    /\ UNCHANGED <<gvars, fvars, evars>>
    /\ groups' = C_addGroup(groups, n).groups
    /\ c_last' = CLast("addGroup", n, NoKey, JNull, NullList, C_addGroup(groups, n), FALSE)
    /\ UNCHANGED <<c_dir, c_saved>>

CDelGroup(n) ==
    /\ UNCHANGED <<gvars, fvars, evars>>
    /\ groups' = C_delGroup(groups, n).groups
    /\ c_last' = CLast("delGroup", n, NoKey, JNull, NullList, C_delGroup(groups, n), FALSE)
    /\ UNCHANGED <<c_dir, c_saved>>

CGetGroup(n) ==
    /\ UNCHANGED <<gvars, fvars, evars>>
    /\ c_last' = CLast("getGroup", n, NoKey, JNull, NullList, C_getGroup(groups, n), FALSE)
    /\ UNCHANGED <<groups, c_dir, c_saved>>

CHas(k, g) ==
    /\ UNCHANGED <<gvars, fvars, evars>>
    /\ c_last' = CLast("has", g, k, JNull, NullList, C_has(groups, k, g), FALSE)
    /\ UNCHANGED <<groups, c_dir, c_saved>>

CGet(k, g) ==
    /\ UNCHANGED <<gvars, fvars, evars>>
    /\ c_last' = CLast("get", g, k, C_getValue(groups, k, g), NullList,
                       C_get(groups, k, g), FALSE)
    /\ UNCHANGED <<groups, c_dir, c_saved>>

CAdd(k, v, g) ==
    /\ UNCHANGED <<gvars, fvars, evars>>
    /\ groups' = C_add(groups, k, v, g).groups
    /\ c_last' = CLast("add", g, k, v, NullList, C_add(groups, k, v, g), FALSE)
    /\ UNCHANGED <<c_dir, c_saved>>

CSet(k, v, g) ==
    /\ UNCHANGED <<gvars, fvars, evars>>
    /\ groups' = C_set(groups, k, v, g).groups
    /\ c_last' = CLast("set", g, k, v, NullList, C_set(groups, k, v, g), FALSE)
    /\ UNCHANGED <<c_dir, c_saved>>

CDel(k, g) ==
    /\ UNCHANGED <<gvars, fvars, evars>>
    /\ groups' = C_del(groups, k, g).groups
    /\ c_last' = CLast("del", g, k, JNull, NullList, C_del(groups, k, g), FALSE)
    /\ UNCHANGED <<c_dir, c_saved>>

CSave(list) ==
    /\ UNCHANGED <<gvars, fvars, evars>>
    /\ c_dir' = C_save(groups, c_dir, list).dir
    /\ c_saved' = IF list.null THEN [valid |-> TRUE, groups |-> groups]
                  ELSE IF c_dir' = c_dir THEN c_saved
                  ELSE [valid |-> FALSE, groups |-> C_reset]
    /\ c_last' = CLast("save", Sentinel, NoKey, JNull, list,
                       C_save(groups, c_dir, list), FALSE)
    /\ UNCHANGED groups

CLoad(list) ==
    /\ UNCHANGED <<gvars, fvars, evars>>
    /\ groups' = C_load(groups, c_dir, list).groups
    /\ c_last' = CLast("load", Sentinel, NoKey, JNull, list,
                       C_load(groups, c_dir, list), groups = C_reset)
    /\ UNCHANGED <<c_dir, c_saved>>

\* the outside world leaves the file of group n cut short by one token, which
\* is not valid JSON
CCorrupt(n) ==
    /\ UNCHANGED <<gvars, fvars, evars>>
    /\ FileName(n) \in DOMAIN c_dir.files
    /\ JSONparse(c_dir.files[FileName(n)]).ok
    /\ c_dir' = [c_dir EXCEPT !.files[FileName(n)] = SubSeq(@, 1, Len(@) - 1)]
    /\ c_saved' = [valid |-> FALSE, groups |-> C_reset]
    /\ c_last' = CLast("corrupt", n, NoKey, JNull, NullList,
                       COut(groups, "ok", "undefined"), FALSE)
    /\ UNCHANGED groups

\* the outside world makes the file of group n read-only
CLock(n) ==
    /\ UNCHANGED <<gvars, fvars, evars>>
    /\ FileName(n) \in DOMAIN c_dir.files \ c_dir.locked
    /\ c_dir' = [c_dir EXCEPT !.locked = @ \cup {FileName(n)}]
    /\ c_last' = CLast("lock", n, NoKey, JNull, NullList,
                       COut(groups, "ok", "undefined"), FALSE)
    /\ UNCHANGED <<groups, c_saved>>

\* the groups argument of save and load when a task can fail: both orders of
\* two groups, and an inherited name before and after a group
FailLists ==
    {NullList, ListOf(<<Sentinel, Pages>>), ListOf(<<Pages, Sentinel>>),
     ListOf(<<ToStringName, Pages>>), ListOf(<<Pages, ToStringName>>)}

\* the operations of a Cache whose files can be damaged or read-only
NextCF ==
    \/ CReset
    \/ CAddGroup(Pages)
    \/ \E k \in CKeys, v \in CValues, g \in {Sentinel, Pages} : CSet(k, v, g)
    \/ \E list \in FailLists : CSave(list)
    \/ \E list \in FailLists : CLoad(list)
    \/ \E n \in {Sentinel, Pages} : CCorrupt(n)
    \/ \E n \in {Sentinel, Pages} : CLock(n)

\* files the directory can hold that no save wrote: a JSON file whose name is
\* an inherited name, one with a name of its own, and a file that is not .json
NewsName == <<"n">>
ForeignFiles ==
    {FileName(ToStringName), FileName(NewsName), Pages \o <<".", "t", "x", "t">>}

\* the outside world puts a file holding an empty array into the directory
CForeign(f) ==
    /\ UNCHANGED <<gvars, fvars, evars>>
    /\ c_dir.exists
    /\ f \notin DOMAIN c_dir.files
    /\ c_dir' = [c_dir EXCEPT !.files =
                    [x \in DOMAIN c_dir.files \cup {f} |->
                        IF x = f THEN JSONstringify(<<>>) ELSE c_dir.files[x]]]
    /\ c_saved' = [valid |-> FALSE, groups |-> C_reset]
    /\ c_last' = CLast("foreign", Sentinel, NoKey, JNull, NullList,
                       COut(groups, "ok", "undefined"), FALSE)
    /\ UNCHANGED groups

\* the operations of a Cache that loads a directory other programs write to
NextCD ==
    \/ CReset
    \/ \E n \in UserNames : CAddGroup(n)
    \/ \E k \in CKeys, v \in CValues, g \in {Sentinel, Pages} : CSet(k, v, g)
    \/ \E list \in {NullList, ListOf(<<Empty>>)} : CSave(list)
    \/ CLoad(NullList)
    \/ \E f \in ForeignFiles : CForeign(f)

NextC ==
    \/ CReset
    \/ \E n \in GroupNames : CAddGroup(n)
    \/ \E n \in GroupNames : CDelGroup(n)
    \/ \E n \in GroupNames : CGetGroup(n)
    \/ \E k \in CKeys, g \in GroupNames : CHas(k, g)
    \/ \E k \in CKeys, g \in GroupNames : CGet(k, g)
    \/ \E k \in CKeys, v \in CValues, g \in GroupNames : CAdd(k, v, g)
    \/ \E k \in CKeys, v \in CValues, g \in GroupNames : CSet(k, v, g)
    \/ \E k \in CKeys, g \in GroupNames : CDel(k, g)
    \/ \E list \in GroupLists : CSave(list)
    \/ \E list \in GroupLists : CLoad(list)

\* the values of the item operations when groups are neither saved nor loaded
ItemValues == {JStr("1"), JNum(1)}

\* the operations on groups and items alone, with two values for every key
NextCItems ==
    \/ CReset
    \/ \E n \in GroupNames : CAddGroup(n)
    \/ \E n \in GroupNames : CDelGroup(n)
    \/ \E n \in GroupNames : CGetGroup(n)
    \/ \E k \in CKeys, g \in GroupNames : CHas(k, g)
    \/ \E k \in CKeys, g \in GroupNames : CGet(k, g)
    \/ \E k \in CKeys, v \in ItemValues, g \in GroupNames : CAdd(k, v, g)
    \/ \E k \in CKeys, v \in ItemValues, g \in GroupNames : CSet(k, v, g)
    \/ \E k \in CKeys, g \in GroupNames : CDel(k, g)

(***************************************************************************)
(* Properties of Cache, checked under SpecCache.                           *)
(***************************************************************************)

\* C2: in every reachable state, whatever was called before and whether or not
\* it failed, the reserved group '_' exists: hasGroup('_') is true.
C2_SentinelAlwaysExists == C_hasGroup(groups, Sentinel) /\ IsGroup(groups, Sentinel)

\* delGroup('_') has just been refused in a cache that was saved, holds another
\* group and holds an entry in '_'
C2_Witness ==
    /\ c_last.op = "delGroup"
    /\ c_last.g = Sentinel
    /\ c_last.ret = "throw"
    /\ c_dir.exists
    /\ Pages \in DOMAIN groups
    /\ groups[Sentinel] # <<>>

\* C3: every addGroup('_') and every delGroup('_') fails with the
\* reserved-group error and changes neither the set of groups nor their entries.
C3_ReservedGroupRefused ==
    [][ (c_last'.op \in {"addGroup", "delGroup"} /\ c_last'.g = Sentinel)
        => (c_last'.res = "GfCacheError: reserved" /\ groups' = groups) ]_vars

\* addGroup('_') has just been refused in a cache with another group and an
\* entry in '_'
C3_Witness ==
    /\ c_last.op = "addGroup"
    /\ c_last.g = Sentinel
    /\ c_last.res = "GfCacheError: reserved"
    /\ Pages \in DOMAIN groups
    /\ groups[Sentinel] # <<>>

\* a fresh Cache has just loaded, with no group list, the directory that the
\* latest save of all groups wrote
RoundTripDone ==
    /\ c_last.op = "load"
    /\ c_last.list.null
    /\ c_last.fresh
    /\ c_saved.valid

ItemOps == {"has", "get", "add", "set", "del"}

C11_Step ==
    LET op == c_last'.op
        g  == c_last'.g
        k  == c_last'.k
    IN op \in ItemOps \cup {"getGroup"} =>
        IF ~IsGroup(groups, g)
        THEN c_last'.res = "GfCacheError: no group" /\ groups' = groups
        ELSE /\ op = "getGroup" => c_last'.ret = "CacheGroup"
             /\ op = "has" =>
                  c_last'.ret = (IF CG_has(groups[g], k) THEN "true" ELSE "false")
             /\ op = "get" => c_last'.v = CG_get(groups[g], k)
             /\ op = "add" =>
                  /\ c_last'.res = CG_add(groups[g], k, c_last'.v).res
                  /\ groups' = [groups EXCEPT ![g] = CG_add(groups[g], k, c_last'.v).data]
             /\ op = "set" =>
                  groups' = [groups EXCEPT ![g] = CG_set(groups[g], k, c_last'.v)]
             /\ op = "del" => groups' = [groups EXCEPT ![g] = CG_del(groups[g], k)]

\* C11: getGroup and has/get/add/set/del with a group name that is not
\* registered fail with the unknown-group error and change nothing; with a
\* registered group they return or apply what the group's own operation does.
C11_UnknownGroupRefused == [][C11_Step]_vars

\* C12: an add, set or del on group g, successful or failed, leaves every
\* other group registered with the entries it had, so one key can hold
\* different values in two groups.
C12_GroupsIsolated ==
    [][ c_last'.op \in {"add", "set", "del"} =>
          \A n \in DOMAIN groups \ {c_last'.g} :
              n \in DOMAIN groups' /\ groups'[n] = groups[n] ]_vars

\* set on group 'pg' has just given k1 a value other than the one k1 holds in '_'
C12_Witness ==
    /\ c_last.op = "set"
    /\ c_last.g = Pages
    /\ c_last.res = "ok"
    /\ Pages \in DOMAIN groups
    /\ CG_get(groups[Pages], "k1") = JNum(1)
    /\ CG_get(groups[Sentinel], "k1") = JStr("1")

\* every group registered before the step, other than g, is registered after
\* it with the same entries
OthersKept(g) ==
    \A n \in DOMAIN groups \ {g} : n \in DOMAIN groups' /\ groups'[n] = groups[n]

C13_Step ==
    LET g == c_last'.g IN
    (c_last'.op = "addGroup" /\ g # Sentinel) =>
        IF IsGroup(groups, g)
        THEN c_last'.res = "GfCacheError: exists" /\ groups' = groups
        ELSE /\ c_last'.res = "ok"
             /\ IsGroup(groups', g)
             /\ \A k \in CKeys : C_has(groups', k, g).ret = "false"
             /\ OthersKept(g)

\* C13: addGroup(name), name not '_', fails with the duplicate-group error when
\* the group is registered, changing nothing; otherwise it registers the group
\* with no entries, so has(k, name) is false for every key.
C13_AddGroupDuplicate == [][C13_Step]_vars

C14_Step ==
    LET g == c_last'.g IN
    (c_last'.op = "delGroup" /\ g # Sentinel) =>
        /\ c_last'.res = "ok"
        /\ ~C_hasGroup(groups', g)
        /\ DOMAIN groups' = DOMAIN groups \ {g}
        /\ OthersKept(g)

\* C14: delGroup(name), name not '_', removes the group when it is registered
\* and does nothing, without error, when it is not; afterwards hasGroup(name)
\* is false and every other group is unchanged.
C14_DelGroupRemoves == [][C14_Step]_vars

\* C15: every successful addGroup, delGroup, add, set and del returns the
\* Cache it was called on.
C15_MutatorsReturnThis ==
    (c_last.op \in {"addGroup", "delGroup", "add", "set", "del"} /\ c_last.res = "ok")
        => c_last.ret = "this"

\* C16: right after construction and right after reset(), hasGroup('_') is
\* true, hasGroup(n) is false for every other name, and '_' has no entries.
C16_FreshCacheOnlySentinel ==
    c_last.op \in {"new", "reset"} =>
        /\ C_hasGroup(groups, Sentinel)
        /\ \A n \in GroupNames \ {Sentinel} : ~C_hasGroup(groups, n)
        /\ groups[Sentinel] = <<>>

\* C17: load(dirPath, groupNames) with a group list and a directory that does
\* not exist resolves in every state, also when a listed name is registered or
\* is '_', and afterwards every listed group is registered and empty.
C17_LoadMissingDirCreates ==
    (c_last.op = "load" /\ ~c_last.list.null /\ ~c_dir.exists) =>
        /\ c_last.ret = "resolved"
        /\ \A n \in Range(c_last.list.names) : IsGroup(groups, n) /\ groups[n] = <<>>

\* the groups a save selects that are registered
Selected(list) ==
    IF list.null THEN DOMAIN groups
    ELSE {n \in Range(list.names) : IsGroup(groups, n)}

C18_Step ==
    c_last'.op = "save" =>
        /\ c_last'.ret = "resolved"
        /\ DOMAIN c_dir'.files =
              DOMAIN c_dir.files \cup {FileName(n) : n \in Selected(c_last'.list)}
        /\ \A n \in Selected(c_last'.list) :
              c_dir'.files[FileName(n)] = JSONstringify(groups[n])
        /\ \A f \in DOMAIN c_dir.files \ {FileName(n) : n \in Selected(c_last'.list)} :
              c_dir'.files[f] = c_dir.files[f]

\* C18: save(dirPath, groupNames) writes one file dirPath/<name>.json with the
\* group's current entries for each selected group that is registered (all
\* groups without a list), skips listed names that are not registered without
\* error, and writes no other file.
C18_SaveWritesSelected == [][C18_Step]_vars

\* the names in front of the extension .json, for the files that have one
JsonNames(dir) ==
    {SubSeq(f, 1, Len(f) - 5) :
        f \in {x \in DOMAIN dir.files :
                 Len(x) > 5 /\ SubSeq(x, Len(x) - 4, Len(x)) = DotJson}}

C25_Step ==
    (c_last'.op = "load" /\ c_last'.list.null /\ c_dir.exists) =>
        /\ c_last'.ret = "resolved"
        /\ DOMAIN groups' = DOMAIN groups \cup JsonNames(c_dir)
        /\ \A n \in JsonNames(c_dir) :
              groups'[n] = CG_load(<<>>, FileAt(c_dir, FileName(n))).data
        /\ \A n \in DOMAIN groups \ JsonNames(c_dir) : groups'[n] = groups[n]

\* C25: load(dirPath) with no group list and an existing directory loads
\* exactly the groups named by the basenames of the files with extension
\* .json, registering those not yet registered; with no such file the call
\* succeeds and the groups and their entries are unchanged.
C25_LoadScansDirectory == [][C25_Step]_vars

(***************************************************************************)
(* Properties of Cache.save and Cache.load when tasks fail, checked under  *)
(* SpecCacheFail.                                                          *)
(***************************************************************************)
C28_Step ==
    (c_last'.op = "load" /\ ~c_last'.list.null /\ c_dir.exists) =>
        /\ \A n \in Range(c_last'.list.names) :
              /\ n \in DOMAIN groups'
              /\ groups'[n] = CG_load(<<>>, FileAt(c_dir, FileName(n))).data
        /\ \A n \in DOMAIN groups \ Range(c_last'.list.names) :
              /\ n \in DOMAIN groups'
              /\ groups'[n] = groups[n]

\* C28: load(dirPath, groupNames) with an existing directory leaves every
\* listed group registered and holding the contents of dirPath/<name>.json,
\* no entries when that file is missing; the groups not listed stay
\* registered with their entries.
C28_LoadListed == [][C28_Step]_vars

\* the task of save for name n fails: n is an inherited name, or the file of
\* the group is read-only
SaveFails(n) ==
    n \in ObjectPrototypeKeys \/ (IsGroup(groups, n) /\ FileName(n) \in c_dir.locked)

\* the task of load for name n fails: n is an inherited name, or the text of
\* its file is not valid JSON
LoadFails(n) ==
    \/ n \in ObjectPrototypeKeys
    \/ /\ FileAt(c_dir, FileName(n)).exists
       /\ ~JSONparse(FileAt(c_dir, FileName(n)).text).ok

C24_Step ==
    LET list   == c_last'.list
        snames == IF list.null THEN DOMAIN groups ELSE Range(list.names)
        lnames == IF list.null THEN Extracted(c_dir) ELSE Range(list.names)
    IN
    /\ c_last'.op = "save" =>
          /\ \A n \in snames : (IsGroup(groups, n) /\ ~SaveFails(n)) =>
                c_dir'.files[FileName(n)] = JSONstringify(groups[n])
          /\ c_last'.ret = (IF \E n \in snames : SaveFails(n)
                            THEN "rejected" ELSE "resolved")
    /\ (c_last'.op = "load" /\ c_dir.exists) =>
          /\ \A n \in lnames : ~LoadFails(n) =>
                /\ IsGroup(groups', n)
                /\ groups'[n] = CG_load(<<>>, FileAt(c_dir, FileName(n))).data
          /\ c_last'.ret = (IF \E n \in lnames : LoadFails(n)
                            THEN "rejected" ELSE "resolved")

\* C24: in save and load over several groups, when the task of one group
\* fails the task of every other selected group still runs to completion, in
\* whatever order the groups are listed, and the promise is rejected; when no
\* task fails every task has completed when the promise resolves.
C24_OtherTasksComplete == [][C24_Step]_vars

\* a fresh Cache has just loaded '_' and 'pg': the text of _.json did not
\* parse, the promise was rejected, and 'pg' holds the entries of pg.json
C24_Witness ==
    /\ c_last.op = "load"
    /\ c_last.list = ListOf(<<Sentinel, Pages>>)
    /\ c_last.fresh
    /\ c_last.res = "SyntaxError"
    /\ c_last.ret = "rejected"
    /\ Pages \in DOMAIN groups
    /\ groups[Pages] # <<>>

(***************************************************************************)
(* FileCache: paths.                                                       *)
(***************************************************************************)
SitePath == <<"/", "s">>

\* the index of the first occurrence of pat in str, 0 when there is none
FirstIndex(str, pat) ==
    LET hits == {i \in 1..(Len(str) - Len(pat) + 1) :
                    SubSeq(str, i, i + Len(pat) - 1) = pat}
    IN IF hits = {} THEN 0 ELSE CHOOSE i \in hits : \A j \in hits : i <= j

\* str.replace(pat, ''): the first occurrence of the string pat, wherever it is
Replace(str, pat) ==
    IF FirstIndex(str, pat) = 0 THEN str
    ELSE SubSeq(str, 1, FirstIndex(str, pat) - 1)
         \o SubSeq(str, FirstIndex(str, pat) + Len(pat), Len(str))

\* GfPath.addLeadingSlash
AddLeadingSlash(str) ==
    IF str = <<"/">> \/ str = <<>> THEN <<"/">>
    ELSE IF str[1] # "/" THEN <<"/">> \o str
    ELSE str

\* name = GfPath.addLeadingSlash(name.replace(this.sitePath, ''))
Norm(name) == AddLeadingSlash(Replace(name, SitePath))

RECURSIVE CollapseSlashes(_)
CollapseSlashes(str) ==
    IF Len(str) < 2 THEN str
    ELSE IF str[1] = "/" /\ str[2] = "/" THEN CollapseSlashes(Tail(str))
    ELSE <<str[1]>> \o CollapseSlashes(Tail(str))

\* path.join(a, b), for paths without . and .. segments
PathJoin(a, b) == CollapseSlashes(a \o <<"/">> \o b)

RelA  == <<"a">>
AbsA  == <<"/", "s", "/", "a">>
DeepA == <<"/", "s", "/", "s", "/", "s", "/", "a">>
NameInputs == {RelA, AbsA, DeepA}

\* the names the caller records fingerprints under with set and add
SetNames == {RelA, AbsA}

SlashA == <<"/", "a">>
RelB   == <<"b">>

\* paths relative to the site root: a, /a, b, and a inside the directory /s
\* of the site (the site root is /s, so this file is /s/s/a)
RelPaths == {RelA, SlashA, RelB, AbsA}

\* the site root followed by the root-relative path
Abs(p) == PathJoin(SitePath, p)

PathInputs == RelPaths \cup {Abs(p) : p \in RelPaths}

\* the files check can stat for these names
FilePaths == {PathJoin(SitePath, Norm(n)) : n \in NameInputs}

(***************************************************************************)
(* FileCache: files and fingerprints.                                      *)
(***************************************************************************)
Mtimes   == 1..MaxMtime
Sizes    == {10, 20}
Contents == {"x", "y"}

Undef == "undefined"
NoTime == 0

\* (new MD5).md5(text), taken to be free of collisions
MD5(content) == "md5:" \o content

\* {mtimeMs, size} and {md5, size}; a property an object lacks reads undefined
StatsFp(m, z) == [mtimeMs |-> m, size |-> z, md5 |-> Undef]
Md5Fp(h, z)   == [mtimeMs |-> NoTime, size |-> z, md5 |-> h]

\* a > b in JavaScript, where b may be undefined (then false)
Greater(a, b) == b # NoTime /\ a > b

CheckTypes == {"stats", "statsdata", "md5"}

\* check types the constructor accepts and check does not know
OtherTypes == {"sha1", "Stats"}

\* the fingerprint check computes for a file under checkType
CurrentFp(type, st) ==
    IF type = "md5" THEN Md5Fp(MD5(st.content), st.size)
    ELSE StatsFp(st.mtimeMs, st.size)

Fingerprints(type) ==
    IF type = "md5" THEN {Md5Fp(MD5(c), z) : c \in Contents, z \in Sizes}
    ELSE {StatsFp(m, z) : m \in Mtimes, z \in Sizes}

AllFingerprints == Fingerprints("stats") \cup Fingerprints("md5")

(***************************************************************************)
(* FileCache operations on the table d (a Map of path -> fingerprint).     *)
(* Every method normalises the name it is given, also when its caller has  *)
(* normalised it already.                                                  *)
(***************************************************************************)
FOut(d, res, ret) == [data |-> d, res |-> res, ret |-> ret]

FC_has(d, name) == MapHas(d, Norm(name))

\* get: "value" with the record, or null, or undefined when has() finds the
\* re-normalised name but the Map lacks the name itself
FC_get(d, name) ==
    IF FC_has(d, Norm(name))
    THEN IF MapHas(d, Norm(name))
         THEN [kind |-> "value", v |-> MapGet(d, Norm(name))]
         ELSE [kind |-> "undefined", v |-> StatsFp(NoTime, 0)]
    ELSE [kind |-> "null", v |-> StatsFp(NoTime, 0)]

FC_set(d, name, v) == MapSet(d, Norm(name), v)

FC_add(d, name, v) ==
    IF FC_has(d, Norm(name))
    THEN FOut(d, "GfFileCacheError: already have", "throw")
    ELSE FOut(FC_set(d, Norm(name), v), "ok", "this")

FC_del(d, name) ==
    IF FC_has(d, Norm(name)) THEN MapDelete(d, Norm(name)) ELSE d

(***************************************************************************)
(* FileCache.save and FileCache.load: the cache file at cachePath, below   *)
(* MaxDepth directories of which the upper disk.depth exist.               *)
(***************************************************************************)
RECURSIVE PathStr(_)
PathStr(p) == IF p = <<>> THEN "" ELSE Head(p) \o PathStr(Tail(p))

\* JSON.stringify of a fingerprint: the properties the object has, in the
\* order the object literal lists them
FpLit(fp) ==
    IF fp.md5 = Undef
    THEN "{\"mtimeMs\":" \o ToString(fp.mtimeMs) \o ",\"size\":" \o ToString(fp.size) \o "}"
    ELSE "{\"md5\":" \o Quote(fp.md5) \o ",\"size\":" \o ToString(fp.size) \o "}"

RECURSIVE FpPairs(_)
FpPairs(es) ==
    IF es = <<>> THEN <<>>
    ELSE <<"[", Quote(PathStr(Head(es).k)), ",", FpLit(Head(es).v), "]">>
         \o (IF Len(es) > 1 THEN <<",">> ELSE <<>>)
         \o FpPairs(Tail(es))

\* JSON.stringify(Array.from(this.data.entries()))
FC_stringify(d) == <<"[">> \o FpPairs(d) \o <<"]">>

\* the keys a table can hold: a name normalised once, twice or three times
TableKeys ==
    UNION {{Norm(n), Norm(Norm(n)), Norm(Norm(Norm(n)))} : n \in NameInputs \cup PathInputs}

FpWellFormed(inner) ==
    \/ inner = <<>>
    \/ /\ (Len(inner) + 1) % 6 = 0
       /\ \A i \in 1..Len(inner) :
            LET j == i % 6 IN
            CASE j = 1 -> inner[i] = "["
              [] j = 2 -> \E k \in TableKeys : Quote(PathStr(k)) = inner[i]
              [] j = 3 -> inner[i] = ","
              [] j = 4 -> \E v \in AllFingerprints : FpLit(v) = inner[i]
              [] j = 5 -> inner[i] = "]"
              [] j = 0 -> inner[i] = ","

\* JSON.parse(serialised): the array of pairs, or a SyntaxError
FC_parse(text) ==
    IF /\ Len(text) >= 2
       /\ text[1] = "["
       /\ text[Len(text)] = "]"
       /\ FpWellFormed(SubSeq(text, 2, Len(text) - 1))
    THEN LET inner == SubSeq(text, 2, Len(text) - 1)
             n     == (Len(inner) + 1) \div 6
         IN [ok |-> TRUE,
             entries |-> [i \in 1..n |->
                [k |-> CHOOSE k \in TableKeys : Quote(PathStr(k)) = inner[6 * (i - 1) + 2],
                 v |-> CHOOSE v \in AllFingerprints : FpLit(v) = inner[6 * (i - 1) + 4]]]]
    ELSE [ok |-> FALSE, entries |-> <<>>]

\* save(): fs.mkdirSync(dirname, {recurse: true}) has no option `recursive`,
\* so it makes the one directory and fails when the directory above is missing
FC_save(d, disk) ==
    IF disk.depth >= MaxDepth - 1
    THEN [disk |-> [depth |-> MaxDepth, file |-> FileOf(FC_stringify(d))],
          res |-> "ok", ret |-> "undefined"]
    ELSE [disk |-> disk, res |-> "ENOENT", ret |-> "throw"]

\* load(): a missing cache file empties the table, a parse failure throws
\* before this.data is assigned
FC_load(d, disk) ==
    IF ~disk.file.exists THEN FOut(<<>>, "ok", "this")
    ELSE IF FC_parse(disk.file.text).ok
         THEN FOut(MapFromEntries(<<>>, FC_parse(disk.file.text).entries), "ok", "this")
         ELSE FOut(d, "SyntaxError", "throw")

\* whether the file differs from the cached record, as each branch compares
Modified(type, cur, cached) ==
    IF type = "md5"
    THEN cur.md5 # cached.md5 \/ cur.size # cached.size
    ELSE Greater(cur.mtimeMs, cached.mtimeMs) \/ cur.size # cached.size

\* faulty variant of FC_check: a check type that is not known is not refused
FC_check_AnyType(d, files, type, name0, autoup) ==
    LET name     == Norm(name0)
        filePath == PathJoin(SitePath, name)
    IN
    IF filePath \notin DOMAIN files \/ ~files[filePath].exists
    THEN FOut(d, "ENOENT", "throw")
    ELSE
    LET cur    == CurrentFp(type, files[filePath])
        writes == type = "md5" \/ (type = "stats" /\ autoup)
        cached == FC_get(d, name)
    IN
    IF ~FC_has(d, name)
    THEN IF writes
         THEN IF FC_add(d, name, cur).res = "ok"
              THEN FOut(FC_add(d, name, cur).data, "ok", "true")
              ELSE FOut(d, FC_add(d, name, cur).res, "throw")
         ELSE FOut(d, "ok", "true")
    ELSE IF cached.kind # "value"
    THEN FOut(d, "TypeError", "throw")
    ELSE IF Modified(type, cur, cached.v)
    THEN FOut(IF writes THEN FC_set(d, name, cur) ELSE d, "ok", "true")
    ELSE FOut(d, "ok", "false")

\* faulty variant of FC_check: a file that is missing is reported as modified
\* instead of failing in fs.statSync; a file that exists is checked as before
FC_check_MissingIsModified(d, files, type, name0, autoup) ==
    IF \/ PathJoin(SitePath, Norm(name0)) \notin DOMAIN files
       \/ ~files[PathJoin(SitePath, Norm(name0))].exists
    THEN FOut(d, "ok", "true")
    ELSE FC_check_AnyType(d, files, type, name0, autoup)

\* check(name, autoup)
FC_check(d, files, type, name0, autoup) ==
    LET name     == Norm(name0)
        filePath == PathJoin(SitePath, name)
    IN
    IF filePath \notin DOMAIN files \/ ~files[filePath].exists
    THEN FOut(d, "ENOENT", "throw")
    ELSE
    LET cur    == CurrentFp(type, files[filePath])
        writes == type = "md5" \/ (type = "stats" /\ autoup)
        cached == FC_get(d, name)
    IN
    IF type \notin CheckTypes
    THEN FOut(d, "GfFileCacheError: invalid check type", "throw")
    ELSE IF ~FC_has(d, name)
    THEN IF writes
         THEN IF FC_add(d, name, cur).res = "ok"
              THEN FOut(FC_add(d, name, cur).data, "ok", "true")
              ELSE FOut(d, FC_add(d, name, cur).res, "throw")
         ELSE FOut(d, "ok", "true")
    ELSE IF cached.kind # "value"
    THEN FOut(d, "TypeError", "throw")
    ELSE IF Modified(type, cur, cached.v)
    THEN FOut(IF writes THEN FC_set(d, name, cur) ELSE d, "ok", "true")
    ELSE FOut(d, "ok", "false")

(***************************************************************************)
(* SpecFileCache: one FileCache of any check type and the files it checks. *)
(***************************************************************************)
\* had: whether has(name) was true before the operation
FLast(op, name, autoup, had, out) ==
    [op |-> op, name |-> name, autoup |-> autoup, had |-> had,
     res |-> out.res, ret |-> out.ret]

FileStats == [exists : {TRUE}, mtimeMs : Mtimes, size : Sizes, content : Contents]

\* the outside world rewrites a file; what the check type never reads
\* (the content under stats and statsdata, the time under md5) is left alone
FTouch(f, st) ==
    /\ UNCHANGED <<gvars, cvars, evars>>
    /\ st # fc_files[f]
    /\ IF fc_type = "md5" THEN st.mtimeMs = fc_files[f].mtimeMs
                          ELSE st.content = fc_files[f].content
    /\ fc_files' = [fc_files EXCEPT ![f] = st]
    /\ fc_last' = FLast("touch", f, TRUE, FALSE, FOut(fc_data, "ok", "undefined"))
    /\ UNCHANGED <<fc_type, fc_data, fc_disk>>

FCheck(name, autoup) ==
    /\ UNCHANGED <<gvars, cvars, evars>>
    /\ fc_data' = FC_check(fc_data, fc_files, fc_type, name, autoup).data
    /\ fc_last' = FLast("check", name, autoup, FC_has(fc_data, name),
                        FC_check(fc_data, fc_files, fc_type, name, autoup))
    /\ UNCHANGED <<fc_type, fc_files, fc_disk>>

FSet(name, v) ==
    /\ UNCHANGED <<gvars, cvars, evars>>
    /\ v \in Fingerprints(fc_type)
    /\ fc_data' = FC_set(fc_data, name, v)
    /\ fc_last' = FLast("set", name, TRUE, FC_has(fc_data, name), FOut(fc_data', "ok", "this"))
    /\ UNCHANGED <<fc_type, fc_files, fc_disk>>

FAdd(name, v) ==
    /\ UNCHANGED <<gvars, cvars, evars>>
    /\ v \in Fingerprints(fc_type)
    /\ fc_data' = FC_add(fc_data, name, v).data
    /\ fc_last' = FLast("add", name, TRUE, FC_has(fc_data, name), FC_add(fc_data, name, v))
    /\ UNCHANGED <<fc_type, fc_files, fc_disk>>

FDel(name) ==
    /\ UNCHANGED <<gvars, cvars, evars>>
    /\ fc_data' = FC_del(fc_data, name)
    /\ fc_last' = FLast("del", name, TRUE, FC_has(fc_data, name), FOut(fc_data', "ok", "this"))
    /\ UNCHANGED <<fc_type, fc_files, fc_disk>>

FHas(name) ==
    /\ UNCHANGED <<gvars, cvars, evars>>
    /\ fc_last' = FLast("has", name, TRUE, FC_has(fc_data, name),
                        FOut(fc_data, "ok", IF FC_has(fc_data, name) THEN "true" ELSE "false"))
    /\ UNCHANGED <<fc_type, fc_data, fc_files, fc_disk>>

FGet(name) ==
    /\ UNCHANGED <<gvars, cvars, evars>>
    /\ fc_last' = FLast("get", name, TRUE, FC_has(fc_data, name),
                        FOut(fc_data, "ok", FC_get(fc_data, name).kind))
    /\ UNCHANGED <<fc_type, fc_data, fc_files, fc_disk>>

\* the outside world removes a file
FRemove(f) ==
    /\ UNCHANGED <<gvars, cvars, evars>>
    /\ fc_files[f].exists
    /\ fc_files' = [fc_files EXCEPT ![f].exists = FALSE]
    /\ fc_last' = FLast("remove", f, TRUE, FALSE, FOut(fc_data, "ok", "undefined"))
    /\ UNCHANGED <<fc_type, fc_data, fc_disk>>

FSave ==
    /\ UNCHANGED <<gvars, cvars, evars>>
    /\ fc_disk' = FC_save(fc_data, fc_disk).disk
    /\ fc_last' = FLast("save", <<>>, TRUE, FALSE,
                        [res |-> FC_save(fc_data, fc_disk).res,
                         ret |-> FC_save(fc_data, fc_disk).ret])
    /\ UNCHANGED <<fc_type, fc_data, fc_files>>

FLoad ==
    /\ UNCHANGED <<gvars, cvars, evars>>
    /\ fc_data' = FC_load(fc_data, fc_disk).data
    /\ fc_last' = FLast("load", <<>>, TRUE, FALSE, FC_load(fc_data, fc_disk))
    /\ UNCHANGED <<fc_type, fc_files, fc_disk>>

\* the outside world makes the next missing directory above the cache file
FMkdir ==
    /\ UNCHANGED <<gvars, cvars, evars>>
    /\ fc_disk.depth < MaxDepth
    /\ fc_disk' = [fc_disk EXCEPT !.depth = @ + 1]
    /\ fc_last' = FLast("mkdir", <<>>, TRUE, FALSE, FOut(fc_data, "ok", "undefined"))
    /\ UNCHANGED <<fc_type, fc_data, fc_files>>

\* the outside world removes the lowest depth directories with all they hold
FWipe(depth) ==
    /\ UNCHANGED <<gvars, cvars, evars>>
    /\ depth < fc_disk.depth
    /\ fc_disk' = [depth |-> depth, file |-> NoFile]
    /\ fc_last' = FLast("wipe", <<>>, TRUE, FALSE, FOut(fc_data, "ok", "undefined"))
    /\ UNCHANGED <<fc_type, fc_data, fc_files>>

NextF ==
    \/ \E f \in FilePaths, st \in FileStats : FTouch(f, st)
    \/ \E name \in NameInputs, autoup \in BOOLEAN : FCheck(name, autoup)
    \/ \E name \in SetNames, v \in AllFingerprints : FSet(name, v)
    \/ \E name \in SetNames, v \in AllFingerprints : FAdd(name, v)
    \/ \E name \in NameInputs : FDel(name)

\* the operations of SpecFileCache, with files that can also go missing
NextM ==
    \/ NextF
    \/ \E f \in FilePaths : FRemove(f)

\* the operations of a FileCache that is saved to and loaded from its cache
\* file, the files it checks being left alone
NextS ==
    \/ \E name \in NameInputs, autoup \in BOOLEAN : FCheck(name, autoup)
    \/ \E name \in SetNames, v \in AllFingerprints : FSet(name, v)
    \/ \E name \in SetNames, v \in AllFingerprints : FAdd(name, v)
    \/ \E name \in NameInputs : FDel(name)
    \/ FSave
    \/ FLoad
    \/ FMkdir
    \/ \E depth \in 0..(MaxDepth - 1) : FWipe(depth)

(***************************************************************************)
(* SpecFilePaths: one FileCache under 'stats' and the forms a path can be  *)
(* given in: relative to the site root, or with the site root in front.    *)
(***************************************************************************)
PathFiles == {PathJoin(SitePath, Norm(n)) : n \in PathInputs}

PathFps == {StatsFp(1, 10), StatsFp(1, 20)}

NextP ==
    \/ \E name \in PathInputs : FHas(name)
    \/ \E name \in PathInputs : FGet(name)
    \/ \E name \in PathInputs, v \in PathFps : FSet(name, v)
    \/ \E name \in PathInputs, v \in PathFps : FAdd(name, v)
    \/ \E name \in PathInputs : FDel(name)
    \/ \E name \in PathInputs, autoup \in BOOLEAN : FCheck(name, autoup)

(***************************************************************************)
(* Properties of FileCache paths, checked under SpecFilePaths.             *)
(***************************************************************************)
\* the canonical form of a root-relative path: a single leading slash
Canon(p) == AddLeadingSlash(p)

\* has and get answer the same for a path and for the site root followed by it
SameLookup(d) ==
    \A p \in RelPaths :
        /\ FC_has(d, p) = FC_has(d, Abs(p))
        /\ FC_get(d, p) = FC_get(d, Abs(p))

\* an operation on path p, in either form, leaves what get answers for every
\* other root-relative path as it was
OthersUntouched ==
    \A p \in RelPaths :
        fc_last'.name \in {p, Abs(p)} =>
            \A q \in RelPaths :
                Canon(q) # Canon(p) => FC_get(fc_data', q) = FC_get(fc_data, q)

C19_Step ==
    fc_last'.op \in {"has", "get", "set", "add", "del", "check"} =>
        SameLookup(fc_data') /\ OthersUntouched

\* C19: has/get/set/add/del and check address the same single record for a
\* root-relative path p, with or without a leading slash, and for the site
\* root followed by p, and two different root-relative paths never address
\* the same record.
C19_PathFormIndependent == [][C19_Step]_vars

\* get answers with the record v
Gets(d, name, v) == FC_get(d, name) = [kind |-> "value", v |-> v]

C26_For(name, v) ==
    /\ Gets(FC_set(fc_data, name, v), name, v)
    /\ FC_has(FC_set(fc_data, name, v), name)
    /\ ~FC_has(fc_data, name) =>
          /\ FC_add(fc_data, name, v).res = "ok"
          /\ Gets(FC_add(fc_data, name, v).data, name, v)
          /\ FC_add(fc_data, name, v).data = FC_set(fc_data, name, v)
    /\ ~FC_has(FC_del(fc_data, name), name)

\* C26: for every path name, set(name, v) then get(name) returns v and
\* has(name) is true; add(name, v) on a name without a record then get(name)
\* returns v; add and set with the same name write the same record; del(name)
\* then has(name) is false.
C26_ItemSemantics == \A name \in PathInputs, v \in PathFps : C26_For(name, v)

(***************************************************************************)
(* Properties of FileCache, checked under SpecFileCache.                   *)
(***************************************************************************)
FileOfName(name) == PathJoin(SitePath, Norm(name))

\* the fingerprint check computes now for the file a name stands for
CurrentOf(name) == CurrentFp(fc_type, fc_files[FileOfName(name)])

\* the step is a call check(name, autoup) on the name of the latest operation
\* with no file rewritten in between
ChecksAgain(autoup) ==
    /\ fc_last'.op = "check"
    /\ fc_last'.name = fc_last.name
    /\ fc_last'.autoup = autoup

\* the fingerprint the table holds for a name differs from the file's
StoredDiffers(name) ==
    /\ FC_get(fc_data, name).kind = "value"
    /\ FC_get(fc_data, name).v # CurrentOf(name)

C5_Step ==
    fc_type \in {"stats", "md5"} =>
        /\ (fc_last'.op = "check" /\ fc_last'.autoup /\ ~fc_last'.had)
              => fc_last'.ret = "true"
        /\ (/\ fc_last.op = "check" /\ fc_last.autoup /\ ~fc_last.had
            /\ fc_last.ret = "true"
            /\ ChecksAgain(TRUE))
              => fc_last'.ret = "false"

\* C5: under stats and md5, check(name) on a path without a record returns
\* true, and the next check(name) of the unchanged file returns false.
C5_NewThenUnchanged == [][C5_Step]_vars

C6_Step ==
    (fc_last'.op = "check" /\ StoredDiffers(fc_last'.name))
        => fc_last'.ret = "true"

\* C6: check(name) returns true whenever the record stored for the path
\* differs from the file's current fingerprint, a lower modification time
\* included.
C6_DifferenceDetected == [][C6_Step]_vars

C7_Step ==
    fc_type = "statsdata" =>
        /\ fc_last'.op = "check" => fc_data' = fc_data
        /\ (/\ fc_last'.op = "check"
            /\ (~fc_last'.had \/ StoredDiffers(fc_last'.name)))
              => fc_last'.ret = "true"
        /\ (/\ fc_last.op = "set"
            /\ FC_get(fc_data, fc_last.name).kind = "value"
            /\ ~StoredDiffers(fc_last.name)
            /\ ChecksAgain(TRUE))
              => fc_last'.ret = "false"

\* C7: under statsdata check never writes the table; so check of a file that
\* is new or differs from its record returns true on every call, until a set
\* with the current fingerprint, after which check returns false.
C7_StatsdataReadOnly == [][C7_Step]_vars

C8_Step ==
    (/\ fc_type \in {"stats", "md5"}
     /\ fc_last'.op = "check"
     /\ fc_last'.ret = "true")
    => IF fc_last'.autoup
       THEN /\ FC_get(fc_data', fc_last'.name).kind = "value"
            /\ FC_get(fc_data', fc_last'.name).v = CurrentOf(fc_last'.name)
       ELSE fc_data' = fc_data

\* C8: under stats and md5 a check that returns true writes the current
\* fingerprint as the record of the path when autoUpdate is true and leaves
\* the table unchanged when autoUpdate is false.
C8_WritesIffAutoUpdate == [][C8_Step]_vars

\* the table holds the file's current fingerprint as the record of the name
StoredIsCurrent(d, name) ==
    /\ FC_get(d, name).kind = "value"
    /\ FC_get(d, name).v = CurrentOf(name)

C27_Step ==
    (/\ fc_type \in {"stats", "md5"}
     /\ fc_last'.op = "check"
     /\ fc_last'.autoup
     /\ fc_last'.ret \in {"true", "false"})
    => StoredIsCurrent(fc_data', fc_last'.name)

\* C27: under stats and md5 with autoUpdate true, after every check that
\* returns, the fingerprint stored for the path equals the file's current
\* fingerprint.
C27_StoredIsCurrentAfterCheck == [][C27_Step]_vars

(***************************************************************************)
(* Properties of a FileCache with an unknown check type, checked under     *)
(* SpecFileType.                                                           *)
(***************************************************************************)
\* C20: with a checkType that is none of 'stats', 'statsdata', 'md5', every
\* check of an existing file fails with the invalid-check-type error and
\* leaves the fingerprint table unchanged.
C20_InvalidTypeRefused ==
    [][ (fc_type \notin CheckTypes /\ fc_last'.op = "check") =>
          /\ fc_last'.res = "GfFileCacheError: invalid check type"
          /\ fc_data' = fc_data ]_vars

\* check has just been refused for a path that has a record, whose file was
\* rewritten since the record was set
C20_Witness ==
    /\ fc_type \notin CheckTypes
    /\ fc_last.op = "check"
    /\ fc_last.had
    /\ fc_last.res = "GfFileCacheError: invalid check type"
    /\ Len(fc_data) = 1
    /\ fc_data[1].v # CurrentOf(fc_last.name)

(***************************************************************************)
(* Properties of FileCache with missing files, checked under               *)
(* SpecFileMissing.                                                        *)
(***************************************************************************)
\* C21: check(name) for a path whose file does not exist fails with the error
\* of the filesystem stat in every check mode, returns no boolean and leaves
\* the table unchanged, also when the path has a record.
C21_MissingFileFails ==
    [][ (fc_last'.op = "check" /\ ~fc_files[FileOfName(fc_last'.name)].exists) =>
          /\ fc_last'.res = "ENOENT"
          /\ fc_last'.ret = "throw"
          /\ fc_data' = fc_data ]_vars

\* check has just failed on a missing file whose path has a record
C21_Witness ==
    /\ fc_last.op = "check"
    /\ fc_last.res = "ENOENT"
    /\ fc_last.had
    /\ ~fc_files[FileOfName(fc_last.name)].exists
    /\ FC_get(fc_data, fc_last.name).kind = "value"

(***************************************************************************)
(* Properties of FileCache.save and of check in any sequence of calls,     *)
(* checked under SpecFileSave.                                             *)
(***************************************************************************)
\* C29: with a valid checkType and an existing file, every check call in a
\* sequence of check, set, add, del, load and save calls returns a boolean,
\* whatever the path name is; it never fails with the 'already have a cache
\* item' error.
C29_CheckReturnsBoolean ==
    [][ fc_last'.op = "check" => fc_last'.ret \in {"true", "false"} ]_vars

\* C23: save() creates the parent directory of the cache file when it does not
\* exist, with every missing directory above it at any depth, and then writes
\* the table to the cache file, replacing a previous file.
C23_SaveMakesDirectories ==
    [][ fc_last'.op = "save" =>
          /\ fc_last'.res = "ok"
          /\ fc_disk'.depth = MaxDepth
          /\ fc_disk'.file = FileOf(FC_stringify(fc_data)) ]_vars

(***************************************************************************)
(* EventManager (src/eventManager.js): handlers registered for an event    *)
(* with a priority, and emit, which calls them level by level.  A handler  *)
(* is an async function: a call starts it and it settles later, fulfilled  *)
(* or rejected.  One emit call is followed at a time, started when no      *)
(* handler call is pending.                                                *)
(***************************************************************************)
MaxHandlers == 3     \* the handler functions are 1..MaxHandlers

Handlers == 1..MaxHandlers

\* the event names passed to on and emit: one valid, one not
BuildEvent == "build"
EventNames == {BuildEvent, "bogus"}
ValidEvents == {BuildEvent}

\* the pri argument of on: left out, or a number
NoPri == [given |-> FALSE, n |-> 0]
PriOf(n) == [given |-> TRUE, n |-> n]
PriArgs == {NoPri, PriOf(0), PriOf(-1), PriOf(1), PriOf(60)}

DefaultPri == 50

\* if (!pri) { pri = 50; }
EffectivePri(p) == IF ~p.given \/ p.n = 0 THEN DefaultPri ELSE p.n

EOut(ev, res) == [events |-> ev, res |-> res]

\* on(event, func, pri)
EM_on(ev, event, func, p) ==
    IF event \notin ValidEvents
    THEN EOut(ev, "GfEventManagerError: invalid event name")
    ELSE EOut(Append(ev, [func |-> func, pri |-> EffectivePri(p), arg |-> p]), "ok")

\* Array.prototype.sort with emit's comparator: ascending pri, stable
InsertByPri(s, x) ==
    LET k == Cardinality({i \in 1..Len(s) : s[i].pri <= x.pri}) IN
    SubSeq(s, 1, k) \o <<x>> \o SubSeq(s, k + 1, Len(s))

RECURSIVE SortByPri(_)
SortByPri(s) ==
    IF s = <<>> THEN <<>>
    ELSE InsertByPri(SortByPri(SubSeq(s, 1, Len(s) - 1)), s[Len(s)])

RECURSIVE Ascending(_)
Ascending(S) ==
    IF S = {} THEN <<>>
    ELSE LET m == CHOOSE x \in S : \A y \in S : x <= y IN
         <<m>> \o Ascending(S \ {m})

\* a property key that is an array index: the canonical text of an integer
\* from 0 up
IsArrayIndex(n) == n >= 0

\* for (let key in pri): the keys of the object pri that emit fills from the
\* sorted array.  The array-index keys come first in ascending numeric order,
\* then the other keys in the order they were created, which is the sorted
\* order.
ForInKeys(sorted) ==
    LET ps == {sorted[i].pri : i \in 1..Len(sorted)} IN
    Ascending({p \in ps : IsArrayIndex(p)}) \o Ascending({p \in ps : ~IsArrayIndex(p)})

\* pri[key]: the functions pushed under one key
FuncsAt(sorted, key) == {sorted[i].func : i \in {j \in 1..Len(sorted) : sorted[j].pri = key}}

EmitState(phase, keys, cur, funcs) ==
    [phase |-> phase, keys |-> keys, cur |-> cur, funcs |-> funcs]

NoEmit == EmitState("none", <<>>, {}, <<>>)

ELast(op, res) == [op |-> op, res |-> res]

\* funcs.map(async f => ...) for the level of one key: every function of the
\* level is called
StartLevel(st, sorted, key) ==
    [f \in Handlers |-> IF f \in FuncsAt(sorted, key) THEN "started" ELSE st[f]]

EOn(event, func, p) ==
    /\ UNCHANGED <<gvars, cvars, fvars>>
    /\ \A i \in 1..Len(em_events) : em_events[i].func # func
    /\ em_events' = EM_on(em_events, event, func, p).events
    /\ em_last' = ELast("on", EM_on(em_events, event, func, p).res)
    /\ UNCHANGED <<em_status, em_emit>>

\* emit(event) up to its first await
EEmit(event) ==
    /\ UNCHANGED <<gvars, cvars, fvars>>
    /\ em_emit.phase # "running"
    /\ \A f \in Handlers : em_status[f] # "started"
    /\ em_last' = ELast("emit", "ok")
    /\ IF event \notin ValidEvents
       THEN /\ em_emit' = EmitState("rejected", <<>>, {}, <<>>)
            /\ em_status' = [f \in Handlers |-> "idle"]
            /\ UNCHANGED em_events
       ELSE IF em_events = <<>>
       THEN /\ em_emit' = EmitState("resolved", <<>>, {}, <<>>)
            /\ em_status' = [f \in Handlers |-> "idle"]
            /\ UNCHANGED em_events
       ELSE LET sorted == SortByPri(em_events)
                keys == ForInKeys(sorted) IN
            /\ em_events' = sorted
            /\ em_status' = StartLevel([f \in Handlers |-> "idle"], sorted, Head(keys))
            /\ em_emit' = EmitState("running", Tail(keys),
                                    FuncsAt(sorted, Head(keys)), sorted)

\* a handler call settles; when it was the last of its level, emit goes on
\* to the next key or returns, and when it failed, Promise.all and with it
\* emit reject
ESettle(func, ok) ==
    /\ UNCHANGED <<gvars, cvars, fvars>>
    /\ em_status[func] = "started"
    /\ em_last' = ELast("settle", IF ok THEN "ok" ELSE "GfEventManagerError: call failed")
    /\ UNCHANGED em_events
    /\ LET st == [em_status EXCEPT ![func] = IF ok THEN "done" ELSE "failed"] IN
       IF em_emit.phase # "running"
       THEN /\ em_status' = st
            /\ UNCHANGED em_emit
       ELSE IF ~ok
       THEN /\ em_status' = st
            /\ em_emit' = [em_emit EXCEPT !.phase = "rejected"]
       ELSE IF \E f \in em_emit.cur : st[f] # "done"
       THEN /\ em_status' = st
            /\ UNCHANGED em_emit
       ELSE IF em_emit.keys = <<>>
       THEN /\ em_status' = st
            /\ em_emit' = [em_emit EXCEPT !.phase = "resolved", !.cur = {}]
       ELSE /\ em_status' = StartLevel(st, em_emit.funcs, Head(em_emit.keys))
            /\ em_emit' = [em_emit EXCEPT !.keys = Tail(@),
                                          !.cur = FuncsAt(em_emit.funcs, Head(em_emit.keys))]

NextE ==
    \/ \E event \in EventNames, func \in Handlers, p \in PriArgs : EOn(event, func, p)
    \/ \E event \in EventNames : EEmit(event)
    \/ \E func \in Handlers, ok \in BOOLEAN : ESettle(func, ok)

(***************************************************************************)
(* Properties of EventManager, checked under SpecEvents.                   *)
(***************************************************************************)
\* the handlers the emit call runs, with the priority each was registered at
Emitted == {em_emit.funcs[i] : i \in 1..Len(em_emit.funcs)}

\* the priority a handler was registered with, 50 when none was given
RegisteredPri(h) == IF h.arg.given THEN h.arg.n ELSE DefaultPri

\* C30: in an emit call every handler of a priority p has completed before a
\* handler of a priority q > p is started, so none of them starts after a
\* failure; handlers of equal priority are started together; emit resolves
\* only when all have completed and rejects when one has failed; a handler
\* registered without a priority runs at priority 50.
C30_AscendingPriorityLevels ==
    /\ \A h \in Emitted, k \in Emitted :
          (RegisteredPri(h) < RegisteredPri(k) /\ em_status[k.func] # "idle")
              => em_status[h.func] = "done"
    /\ \A h \in Emitted, k \in Emitted :
          RegisteredPri(h) = RegisteredPri(k)
              => (em_status[h.func] = "idle" <=> em_status[k.func] = "idle")
    /\ em_emit.phase = "resolved" => \A h \in Emitted : em_status[h.func] = "done"
    /\ (\E h \in Emitted : em_status[h.func] = "failed") => em_emit.phase = "rejected"

(***************************************************************************)
(* Specifications.                                                         *)
(***************************************************************************)
\* no directory above cachePath exists and no cache file
NoDisk == [depth |-> 0, file |-> NoFile]

GLast0 == GLast("new", NoKey, JNull, "ok", [op |-> "none", k |-> NoKey])
CLast0 == CLast("new", Sentinel, NoKey, JNull, NullList, COut(C_reset, "ok", "this"), TRUE)
FLast0 == FLast("new", <<>>, TRUE, FALSE, FOut(<<>>, "ok", "this"))

\* new CacheGroup(name) and new Cache(), nothing on disk; no FileCache in use
Init ==
    /\ g_data = CG_new
    /\ g_file = NoFile
    /\ g_dir = FALSE
    /\ g_saved = <<>>
    /\ g_prev = <<>>
    /\ g_last = GLast0
    /\ groups = C_reset
    /\ c_dir = NoDir
    /\ c_saved = [valid |-> FALSE, groups |-> C_reset]
    /\ c_last = CLast0
    /\ fc_type = "stats"
    /\ fc_data = <<>>
    /\ fc_files = <<>>
    /\ fc_last = FLast0
    /\ fc_disk = NoDisk
    /\ em_events = <<>>
    /\ em_status = [f \in Handlers |-> "idle"]
    /\ em_emit = NoEmit
    /\ em_last = ELast("new", "ok")

\* new FileCache(cachePath, sitePath, checkType) with an empty table; the
\* files below the site root exist already
InitFileCache ==
    /\ g_data = CG_new
    /\ g_file = NoFile
    /\ g_dir = FALSE
    /\ g_saved = <<>>
    /\ g_prev = <<>>
    /\ g_last = GLast0
    /\ groups = C_reset
    /\ c_dir = NoDir
    /\ c_saved = [valid |-> FALSE, groups |-> C_reset]
    /\ c_last = CLast0
    /\ fc_type \in CheckTypes
    /\ fc_data = <<>>
    /\ fc_files = [f \in FilePaths |->
                     [exists |-> TRUE, mtimeMs |-> 1, size |-> 10, content |-> "x"]]
    /\ fc_last = FLast0
    /\ fc_disk = NoDisk
    /\ em_events = <<>>
    /\ em_status = [f \in Handlers |-> "idle"]
    /\ em_emit = NoEmit
    /\ em_last = ELast("new", "ok")

\* new FileCache(cachePath, sitePath): check type 'stats', every file present
InitFilePaths ==
    /\ g_data = CG_new
    /\ g_file = NoFile
    /\ g_dir = FALSE
    /\ g_saved = <<>>
    /\ g_prev = <<>>
    /\ g_last = GLast0
    /\ groups = C_reset
    /\ c_dir = NoDir
    /\ c_saved = [valid |-> FALSE, groups |-> C_reset]
    /\ c_last = CLast0
    /\ fc_type = "stats"
    /\ fc_data = <<>>
    /\ fc_files = [f \in PathFiles |->
                     [exists |-> TRUE, mtimeMs |-> 1, size |-> 10, content |-> "x"]]
    /\ fc_last = FLast0
    /\ fc_disk = NoDisk
    /\ em_events = <<>>
    /\ em_status = [f \in Handlers |-> "idle"]
    /\ em_emit = NoEmit
    /\ em_last = ELast("new", "ok")

\* new FileCache(cachePath, sitePath, 'sha1'): the constructor stores any type
InitFileType ==
    /\ g_data = CG_new
    /\ g_file = NoFile
    /\ g_dir = FALSE
    /\ g_saved = <<>>
    /\ g_prev = <<>>
    /\ g_last = GLast0
    /\ groups = C_reset
    /\ c_dir = NoDir
    /\ c_saved = [valid |-> FALSE, groups |-> C_reset]
    /\ c_last = CLast0
    /\ fc_type \in OtherTypes
    /\ fc_data = <<>>
    /\ fc_files = [f \in FilePaths |->
                     [exists |-> TRUE, mtimeMs |-> 1, size |-> 10, content |-> "x"]]
    /\ fc_last = FLast0
    /\ fc_disk = NoDisk
    /\ em_events = <<>>
    /\ em_status = [f \in Handlers |-> "idle"]
    /\ em_emit = NoEmit
    /\ em_last = ELast("new", "ok")

\* new FileCache(cachePath, sitePath, checkType) with any number of the
\* directories above cachePath in place
InitFileSave ==
    /\ g_data = CG_new
    /\ g_file = NoFile
    /\ g_dir = FALSE
    /\ g_saved = <<>>
    /\ g_prev = <<>>
    /\ g_last = GLast0
    /\ groups = C_reset
    /\ c_dir = NoDir
    /\ c_saved = [valid |-> FALSE, groups |-> C_reset]
    /\ c_last = CLast0
    /\ fc_type \in CheckTypes
    /\ fc_data = <<>>
    /\ fc_files = [f \in FilePaths |->
                     [exists |-> TRUE, mtimeMs |-> 1, size |-> 10, content |-> "x"]]
    /\ fc_last = FLast0
    /\ fc_disk \in [depth : 0..MaxDepth, file : {NoFile}]
    /\ em_events = <<>>
    /\ em_status = [f \in Handlers |-> "idle"]
    /\ em_emit = NoEmit
    /\ em_last = ELast("new", "ok")

SpecGroup == Init /\ [][NextG]_vars

SpecGroupDisk == Init /\ [][NextGD]_vars

SpecCache == Init /\ [][NextC]_vars

SpecCacheFail == Init /\ [][NextCF]_vars

SpecCacheDir == Init /\ [][NextCD]_vars

SpecCacheItems == Init /\ [][NextCItems]_vars

SpecFilePaths == InitFilePaths /\ [][NextP]_vars

SpecFileType == InitFileType /\ [][NextF]_vars

SpecFileMissing == InitFileCache /\ [][NextM]_vars

SpecFileSave == InitFileSave /\ [][NextS]_vars

SpecFileCache == InitFileCache /\ [][NextF]_vars

SpecEvents == Init /\ [][NextE]_vars

=============================================================================
